---- MODULE Spec2Model ----
(***************************************************************************)
(* Model of the user-settings GraphQL resolvers                            *)
(* (src/nodejs/graphql-node-review.ts).  The state is the two tables       *)
(* (users, settings), the wall clock, the UUID source, and one record of   *)
(* locals per request running resolvers.Mutation.updateSettings.           *)
(* Every await of the resolver is a step boundary, so invocations          *)
(* interleave at the granularity of single statements sent to the store.   *)
(* Spec serves the requests one after another, ConcSpec lets them overlap. *)
(* Reads of the users table are taken to complete; a store that rejects a  *)
(* statement is modelled on the writer path (UpsertFail).                  *)
(***************************************************************************)
EXTENDS Integers, Sequences, FiniteSets, TLC

VARIABLES users, settings, clock, nextId, inv, query, form

vars == <<users, settings, clock, nextId, inv, query, form>>

\* ---------------------------------------------------------------- bounds
MaxLen   == 2       \* longest `settings` argument
MaxClock == 1       \* last clock reading (the clock starts at 0)

\* ---------------------------------------------------------------- values
Null      == "null"
Undefined == "undefined"

\* x ?? null
OrNull(x) == IF x = Undefined THEN Null ELSE x

Slots     == {1, 2}                     \* the requests of one behaviour
UserIds   == {"u1", "u9"}               \* userId arguments; "u9" matches no user row
Actors    == {"u2", Undefined}          \* ctx.userId
ConcUser  == "u1"                       \* the user overlapping requests update
ConcActor == <<"u2", Undefined>>        \* the caller of each overlapping request
Keys      == {"k1", "k2"}
Values    == <<"v1", "v2">>

RECURSIVE SeqsUpTo(_, _)
SeqsUpTo(S, n) ==
  IF n = 0 THEN {<<>>}
  ELSE LET shorter == SeqsUpTo(S, n - 1)
       IN  shorter \cup {Append(s, x) : s \in {t \in shorter : Len(t) = n - 1}, x \in S}

\* the key sequences of the `settings` arguments
KeyLists == SeqsUpTo(Keys, MaxLen)

\* the value of pair j of request p: the first request writes v1, v2, v1, ...
\* and the second v2, v1, v2, ..., so that requests, and the pairs of one
\* request, are told apart by what they write
ValueAt(p, j) == Values[((p + j) % 2) + 1]

\* the `settings` argument of request p with the keys `keys`
InputOf(p, keys) ==
  [j \in 1..Len(keys) |-> [key |-> keys[j], value |-> ValueAt(p, j)]]

\* Date.prototype.toISOString: a Date becomes its string rendering
toISOString(d) == <<"iso", d>>

\* ---------------------------------------------------------------- tables
\* the settings table holds a row of another user before any request
InitSettings ==
  { [id |-> 0, user_id |-> "u2", key |-> "k1", value |-> "v1",
     updated_at |-> 0, updated_by |-> Null] }

InitUsers ==
  { [id |-> "u1", email |-> "u1@example", role |-> "ADMIN",  created_at |-> 0],
    [id |-> "u2", email |-> "u2@example", role |-> "MEMBER", created_at |-> 0] }

\* db.selectFrom("users").selectAll().where("id", "=", id)
SelectUser(id) == {r \in users : r.id = id}

\* db.selectFrom("settings").select(count("id")).where("user_id", "=", id)
settingsCount(id) == Cardinality({r \in settings : r.user_id = id})

\* variant of Conflict for a table without the unique index on (user_id, key)
Conflict_None(userId, key) == {}

\* variant of Conflict for a conflict target of (user_id) alone
Conflict_UserOnly(userId, key) == {r \in settings : r.user_id = userId}

\* rows of the settings table that conflict on the columns (user_id, key)
Conflict(userId, key) == {r \in settings : r.user_id = userId /\ r.key = key}

\* the row an INSERT ... VALUES (...) statement proposes
InsertRow(id, userId, key, value, now, actor) ==
  [id |-> id, user_id |-> userId, key |-> key, value |-> value,
   updated_at |-> now, updated_by |-> OrNull(actor)]

\* variant of doUpdateSet that sets updated_at only
doUpdateSet_KeepValue(r, value, now) ==
  [r EXCEPT !.updated_at = now]

\* ON CONFLICT (user_id, key) DO UPDATE SET value, updated_at
doUpdateSet(r, value, now) ==
  [r EXCEPT !.value = value, !.updated_at = now]

\* variant of UpsertTable that replaces a conflicting row by the proposed one
UpsertTable_Replace(id, userId, key, value, now, actor) ==
  (settings \ Conflict(userId, key))
    \cup {InsertRow(id, userId, key, value, now, actor)}

\* the table after the upsert statement
UpsertTable(id, userId, key, value, now, actor) ==
  IF Conflict(userId, key) = {}
  THEN settings \cup {InsertRow(id, userId, key, value, now, actor)}
  ELSE {IF r \in Conflict(userId, key) THEN doUpdateSet(r, value, now) ELSE r
        : r \in settings}

\* variant of Returning that hands back a conflicting row as it was before the
\* update
Returning_RowBefore(id, userId, key, value, now, actor) ==
  IF Conflict(userId, key) = {}
  THEN InsertRow(id, userId, key, value, now, actor)
  ELSE CHOOSE r \in Conflict(userId, key) : TRUE

\* RETURNING id, key, value, updated_at, updated_by of the upserted row
Returning(id, userId, key, value, now, actor) ==
  IF Conflict(userId, key) = {}
  THEN InsertRow(id, userId, key, value, now, actor)
  ELSE doUpdateSet(CHOOSE r \in Conflict(userId, key) : TRUE, value, now)

\* one element pushed on `updated`
UpdatedEntry(r) ==
  [id |-> r.id, key |-> r.key, value |-> r.value,
   updatedAt |-> toISOString(r.updated_at), updatedById |-> r.updated_by]

\* variant of AuditBody with `actorId: ctx.userId`: JSON.stringify leaves an
\* undefined actorId out of the body
AuditBody_NoCoalesce(userId, actor, now, updated) ==
  [eventType |-> "USER_SETTINGS_UPDATED",
   userId    |-> userId,
   actorId   |-> actor,
   at        |-> toISOString(now),
   changes   |-> [j \in 1..Len(updated) |->
                    [key |-> updated[j].key, value |-> updated[j].value]]]

\* the JSON body posted to the audit service; an actorId of Undefined stands
\* for a body without the field
AuditBody(userId, actor, now, updated) ==
  [eventType |-> "USER_SETTINGS_UPDATED",
   userId    |-> userId,
   actorId   |-> OrNull(actor),
   at        |-> toISOString(now),
   changes   |-> [j \in 1..Len(updated) |->
                    [key |-> updated[j].key, value |-> updated[j].value]]]

\* the user object of the payload
UserPayload(u) ==
  [id |-> u.id, email |-> u.email, role |-> u.role,
   created_at |-> u.created_at, createdAt |-> toISOString(u.created_at)]

\* ---------------------------------------------------------------- slots
IdleInv ==
  [pc |-> "idle", userId |-> Null, settings |-> <<>>, ctx |-> Undefined,
   u |-> {}, now |-> 0, updated |-> <<>>, sent |-> <<>>,
   auditResponse |-> Null, error |-> Null, result |-> <<>>]

\* no read resolver has run yet
NoQuery == [op |-> "none", ids |-> <<>>, reply |-> <<>>]

\* the form fields that run schemaValidator
Fields == {1, 2}

\* a field whose validator has not been called
IdleForm == [pc |-> "idle", value |-> Undefined, remote |-> <<>>,
             response |-> <<>>, message |-> Null]

Running(p) == inv[p].pc \in {"lookup", "loop", "fetch"}

Init ==
  /\ users = InitUsers
  /\ settings = InitSettings
  /\ clock = 0
  /\ nextId = 1
  /\ inv = [p \in Slots |-> IdleInv]
  /\ query = NoQuery
  /\ form = [f \in Fields |-> IdleForm]

\* the wall clock advances
Tick ==
  /\ clock < MaxClock
  /\ clock' = clock + 1
  /\ UNCHANGED <<query, form, users, settings, nextId, inv>>

\* the resolver is entered with (userId, settings) and the context ctx
Enter(p, userId, keys, actor) ==
  /\ inv' = [inv EXCEPT ![p] =
       [IdleInv EXCEPT !.pc = "lookup", !.userId = userId,
                       !.settings = InputOf(p, keys), !.ctx = actor]]
  /\ UNCHANGED <<query, form, users, settings, clock, nextId>>

\* variant of Lookup without the `if (!u) throw`
Lookup_NoThrow(p) ==
  /\ inv[p].pc = "lookup"
  /\ inv' = [inv EXCEPT ![p].pc = "loop", ![p].u = SelectUser(inv[p].userId),
                         ![p].now = clock]
  /\ UNCHANGED <<query, form, users, settings, clock, nextId>>

\* the user is read, a missing user throws, otherwise `now` is taken
Lookup(p) ==
  /\ inv[p].pc = "lookup"
  /\ LET u == SelectUser(inv[p].userId)
     IN  inv' = [inv EXCEPT ![p] =
           IF u = {}
           THEN [@ EXCEPT !.pc = "failed", !.error = "User not found"]
           ELSE [@ EXCEPT !.pc = "loop", !.u = u, !.now = clock]]
  /\ UNCHANGED <<query, form, users, settings, clock, nextId>>

\* variant of Upsert that puts the new entry at the front of `updated`
Upsert_Unshift(p) ==
  /\ inv[p].pc = "loop"
  /\ Len(inv[p].updated) < Len(inv[p].settings)
  /\ LET s   == inv[p].settings[Len(inv[p].updated) + 1]
         id  == nextId
         r   == Returning(id, inv[p].userId, s.key, s.value, inv[p].now, inv[p].ctx)
     IN  /\ settings' = UpsertTable(id, inv[p].userId, s.key, s.value,
                                    inv[p].now, inv[p].ctx)
         /\ inv' = [inv EXCEPT ![p].updated = <<UpdatedEntry(r)>> \o @]
  /\ nextId' = nextId + 1
  /\ UNCHANGED <<query, form, users, clock>>

\* variant of Upsert that takes a new Date() for every row
Upsert_DatePerRow(p) ==
  /\ inv[p].pc = "loop"
  /\ Len(inv[p].updated) < Len(inv[p].settings)
  /\ LET s   == inv[p].settings[Len(inv[p].updated) + 1]
         id  == nextId
         r   == Returning(id, inv[p].userId, s.key, s.value, clock, inv[p].ctx)
     IN  /\ settings' = UpsertTable(id, inv[p].userId, s.key, s.value,
                                    clock, inv[p].ctx)
         /\ inv' = [inv EXCEPT ![p].updated = Append(@, UpdatedEntry(r))]
  /\ nextId' = nextId + 1
  /\ UNCHANGED <<query, form, users, clock>>

\* one iteration of the for loop: the upsert statement and the push
Upsert(p) ==
  /\ inv[p].pc = "loop"
  /\ Len(inv[p].updated) < Len(inv[p].settings)
  /\ LET s   == inv[p].settings[Len(inv[p].updated) + 1]
         id  == nextId
         r   == Returning(id, inv[p].userId, s.key, s.value, inv[p].now, inv[p].ctx)
     IN  /\ settings' = UpsertTable(id, inv[p].userId, s.key, s.value,
                                    inv[p].now, inv[p].ctx)
         /\ inv' = [inv EXCEPT ![p].updated = Append(@, UpdatedEntry(r))]
  /\ nextId' = nextId + 1
  /\ UNCHANGED <<query, form, users, clock>>

\* variant of UpsertFail that still posts the event before it throws
UpsertFail_ThenAudit(p) ==
  /\ inv[p].pc = "loop"
  /\ Len(inv[p].updated) < Len(inv[p].settings)
  /\ inv' = [inv EXCEPT
       ![p].pc = "failed", ![p].error = "storage error",
       ![p].sent = Append(@, AuditBody(inv[p].userId, inv[p].ctx,
                                       inv[p].now, inv[p].updated))]
  /\ UNCHANGED <<query, form, users, settings, clock, nextId>>

\* the store rejects the upsert statement: the resolver throws
UpsertFail(p) ==
  /\ inv[p].pc = "loop"
  /\ Len(inv[p].updated) < Len(inv[p].settings)
  /\ inv' = [inv EXCEPT ![p].pc = "failed", ![p].error = "storage error"]
  /\ UNCHANGED <<query, form, users, settings, clock, nextId>>

\* variant of Audit that returns at once when there is nothing to report
Audit_SkipEmpty(p) ==
  /\ inv[p].pc = "loop"
  /\ Len(inv[p].updated) = Len(inv[p].settings)
  /\ inv' = [inv EXCEPT ![p] =
       IF inv[p].updated = <<>>
       THEN [@ EXCEPT !.pc = "done", !.auditResponse = "ok",
                      !.result = <<[success  |-> TRUE,
                                    user     |-> UserPayload(CHOOSE x \in inv[p].u : TRUE),
                                    settings |-> inv[p].updated]>>]
       ELSE [@ EXCEPT !.pc = "fetch",
                      !.sent = Append(@, AuditBody(inv[p].userId, inv[p].ctx,
                                                   inv[p].now, inv[p].updated))]]
  /\ UNCHANGED <<query, form, users, settings, clock, nextId>>

\* variant of Audit placed inside the loop: an event is posted between upserts
Audit_InLoop(p) ==
  /\ inv[p].pc = "loop"
  /\ inv' = [inv EXCEPT
       ![p].pc = IF Len(inv[p].updated) = Len(inv[p].settings) THEN "fetch" ELSE "loop",
       ![p].sent = Append(@, AuditBody(inv[p].userId, inv[p].ctx,
                                       inv[p].now, inv[p].updated))]
  /\ UNCHANGED <<query, form, users, settings, clock, nextId>>

\* after the loop the event is posted to the audit service
Audit(p) ==
  /\ inv[p].pc = "loop"
  /\ Len(inv[p].updated) = Len(inv[p].settings)
  /\ inv' = [inv EXCEPT
       ![p].pc = "fetch",
       ![p].sent = Append(@, AuditBody(inv[p].userId, inv[p].ctx,
                                       inv[p].now, inv[p].updated))]
  /\ UNCHANGED <<query, form, users, settings, clock, nextId>>

AuditOutcomes == {"ok", "not ok", "rejected"}

\* the object the resolver returns
Payload(u, updated) ==
  [success |-> TRUE, user |-> UserPayload(u), settings |-> updated]

\* variant of AuditRespond that deletes the rows of the batch before it
\* throws on a response that is not ok
AuditRespond_Rollback(p, outcome) ==
  /\ inv[p].pc = "fetch"
  /\ inv' = [inv EXCEPT ![p] =
       CASE outcome = "rejected" ->
              [@ EXCEPT !.pc = "failed", !.error = "fetch failed"]
         [] outcome = "not ok" ->
              [@ EXCEPT !.pc = "failed", !.auditResponse = outcome,
                        !.error = "Audit service failed"]
         [] OTHER ->
              [@ EXCEPT !.pc = "done", !.auditResponse = outcome,
                        !.result = <<Payload(CHOOSE x \in inv[p].u : TRUE,
                                             inv[p].updated)>>]]
  /\ settings' = IF outcome = "not ok"
                 THEN {r \in settings :
                         \A j \in 1..Len(inv[p].updated) : r.id # inv[p].updated[j].id}
                 ELSE settings
  /\ UNCHANGED <<query, form, users, clock, nextId>>

\* fetch settles: a rejected fetch throws, a response that is not ok throws,
\* an ok response returns the payload
AuditRespond(p, outcome) ==
  /\ inv[p].pc = "fetch"
  /\ inv' = [inv EXCEPT ![p] =
       CASE outcome = "rejected" ->
              [@ EXCEPT !.pc = "failed", !.error = "fetch failed"]
         [] outcome = "not ok" ->
              [@ EXCEPT !.pc = "failed", !.auditResponse = outcome,
                        !.error = "Audit service failed"]
         [] OTHER ->
              [@ EXCEPT !.pc = "done", !.auditResponse = outcome,
                        !.result = <<Payload(CHOOSE x \in inv[p].u : TRUE,
                                             inv[p].updated)>>]]
  /\ UNCHANGED <<query, form, users, settings, clock, nextId>>

\* request p has returned or thrown
Ended(p) == inv[p].pc \in {"done", "failed"}

\* a request arrives when the request before it has ended
Call(p) ==
  /\ inv[p].pc = "idle"
  /\ \A q \in Slots : q < p => Ended(q)
  /\ \E userId \in UserIds, keys \in KeyLists, actor \in Actors :
       Enter(p, userId, keys, actor)

\* a request for ConcUser arrives while the request before it may be in flight
ConcCall(p) ==
  /\ inv[p].pc = "idle"
  /\ \A q \in Slots : q < p => inv[q].pc # "idle"
  /\ \E keys \in KeyLists : Enter(p, ConcUser, keys, ConcActor[p])

Next ==
  \/ Tick
  \/ \E p \in Slots : Call(p)
  \/ \E p \in Slots : Lookup(p)
  \/ \E p \in Slots : Upsert(p)
  \/ \E p \in Slots : UpsertFail(p)
  \/ \E p \in Slots : Audit(p)
  \/ \E p \in Slots, outcome \in AuditOutcomes : AuditRespond(p, outcome)

Spec == Init /\ [][Next]_vars

ConcNext ==
  \/ Tick
  \/ \E p \in Slots : ConcCall(p)
  \/ \E p \in Slots : Lookup(p)
  \/ \E p \in Slots : Upsert(p)
  \/ \E p \in Slots : UpsertFail(p)
  \/ \E p \in Slots : Audit(p)
  \/ \E p \in Slots, outcome \in AuditOutcomes : AuditRespond(p, outcome)

ConcSpec == Init /\ [][ConcNext]_vars

\* ---------------------------------------------------------------- readers
\* A value of type `T | null` is a set: the empty set is null.

\* the `ids` arguments of Query.users
IdLists == SeqsUpTo(UserIds, MaxLen)

\* Query.user
Query_user(id) == {UserPayload(u) : u \in SelectUser(id)}

\* variant of Query_users with rows.filter(Boolean) before the map
Query_users_DropMissing(ids) ==
  LET Found(s) == s # {}
  IN  SelectSeq([i \in 1..Len(ids) |-> Query_user(ids[i])], Found)

\* Query.users: one lookup per id, the results in the order of the ids
Query_users(ids) ==
  [i \in 1..Len(ids) |-> {UserPayload(u) : u \in SelectUser(ids[i])}]

\* User.settingsCount: Number(r?.count ?? 0)
User_settingsCount(u) == settingsCount(u.id)

\* Setting.updatedBy
Setting_updatedBy(s) ==
  IF s.updatedById \in {Undefined, Null, ""} THEN {}
  ELSE {UserPayload(u) : u \in SelectUser(s.updatedById)}

\* a read resolver leaves its arguments and its return value in `query`
Answer(op, ids, reply) ==
  /\ query' = [op |-> op, ids |-> ids, reply |-> reply]
  /\ UNCHANGED <<form, users, settings, clock, nextId, inv>>

ReadUser(id) == Answer("user", <<id>>, <<Query_user(id)>>)

ReadUsers(ids) == Answer("users", ids, Query_users(ids))

\* settingsCount is resolved on a User object u
ReadSettingsCount(u) ==
  Answer("settingsCount", <<u.id>>, <<User_settingsCount(u)>>)

\* updatedBy is resolved on a Setting object s
ReadUpdatedBy(s) ==
  Answer("updatedBy", <<s.updatedById>>, <<Setting_updatedBy(s)>>)

\* the User objects the read resolvers return
UserObjects == {UserPayload(u) : u \in users}

\* the Setting objects updateSettings returns
SettingObjects == {UpdatedEntry(r) : r \in settings}

\* a request for ConcUser arrives when the request before it has ended
SeqCall(p) ==
  /\ inv[p].pc = "idle"
  /\ \A q \in Slots : q < p => Ended(q)
  /\ \E keys \in KeyLists : Enter(p, ConcUser, keys, ConcActor[p])

\* updateSettings requests one after another, and the read resolvers between
\* their steps; no reader reads the clock, which stands still here
ReadNext ==
  \/ \E p \in Slots : SeqCall(p)
  \/ \E p \in Slots : Lookup(p)
  \/ \E p \in Slots : Upsert(p)
  \/ \E p \in Slots : UpsertFail(p)
  \/ \E p \in Slots : Audit(p)
  \/ \E p \in Slots, outcome \in AuditOutcomes : AuditRespond(p, outcome)
  \/ \E id \in UserIds : ReadUser(id)
  \/ \E ids \in IdLists : ReadUsers(ids)
  \/ \E u \in UserObjects : ReadSettingsCount(u)
  \/ \E s \in SettingObjects : ReadUpdatedBy(s)

ReadSpec == Init /\ [][ReadNext]_vars

\* ---------------------------------------------------------------- schemaValidator
\* the values the form hands to the rule; Undefined is a field never filled in
FormValues == {Undefined, "", "a INT", "b STRING"}

\* !value
Falsy(value) == value \in {Undefined, Null, ""}

\* the errors the remote query reports or raises
RemoteErrors == {"GraphQLError", "NetworkError"}

\* the lazy query resolves with { error }, error Undefined for a valid
\* schema, or rejects with an error
RemoteResponses ==
  [kind : {"resolved"}, error : {Undefined} \cup RemoteErrors]
    \cup [kind : {"rejected"}, error : RemoteErrors]

\* variant of Validate without the `if (!value)` test
Validate_NoRequiredTest(f, value) ==
  /\ form[f].pc = "idle"
  /\ form' = [form EXCEPT ![f] =
       [IdleForm EXCEPT !.pc = "awaiting", !.value = value,
                        !.remote = <<[sparkSchemaDDL |-> value]>>]]
  /\ UNCHANGED <<query, users, settings, clock, nextId, inv>>

\* the rule is called on field f: it throws on a missing value, and otherwise
\* calls the remote query and awaits it
Validate(f, value) ==
  /\ form[f].pc = "idle"
  /\ form' = [form EXCEPT ![f] =
       IF Falsy(value)
       THEN [IdleForm EXCEPT !.pc = "rejected", !.value = value,
                             !.message = "Schema is required"]
       ELSE [IdleForm EXCEPT !.pc = "awaiting", !.value = value,
                             !.remote = <<[sparkSchemaDDL |-> value]>>]]
  /\ UNCHANGED <<query, users, settings, clock, nextId, inv>>

\* the remote schema is valid: the call resolved and reported no error
Valid(response) == response.kind = "resolved" /\ response.error = Undefined

\* variant of Settle whose catch block rethrows the error it caught
Settle_Rethrow(f, response) ==
  /\ form[f].pc = "awaiting"
  /\ form' = [form EXCEPT ![f].response = <<response>>,
                          ![f].pc = IF Valid(response) THEN "fulfilled" ELSE "rejected",
                          ![f].message = IF Valid(response) THEN Null ELSE response.error]
  /\ UNCHANGED <<query, users, settings, clock, nextId, inv>>

\* the awaited call settles: a reported error is thrown inside the try block,
\* and the catch block replaces whatever was thrown
Settle(f, response) ==
  /\ form[f].pc = "awaiting"
  /\ form' = [form EXCEPT ![f].response = <<response>>,
                          ![f].pc = IF Valid(response) THEN "fulfilled" ELSE "rejected",
                          ![f].message = IF Valid(response) THEN Null ELSE "Invalid schema"]
  /\ UNCHANGED <<query, users, settings, clock, nextId, inv>>

ValidatorNext ==
  \/ \E f \in Fields, value \in FormValues : Validate(f, value)
  \/ \E f \in Fields, response \in RemoteResponses : Settle(f, response)

ValidatorSpec == Init /\ [][ValidatorNext]_vars

\* ================================================================ claims
ExistingIds == {r.id : r \in users}

KeysOf(input) == {input[j].key : j \in 1..Len(input)}

DistinctKeys(input) ==
  \A i, j \in 1..Len(input) : i # j => input[i].key # input[j].key

\* the rows of table tbl with the unique key (userId, key)
RowsOf(tbl, userId, key) == {r \in tbl : r.user_id = userId /\ r.key = key}

\* the rows of the settings table for the keys of a batch
BatchRows(userId, input) ==
  {r \in settings : r.user_id = userId /\ r.key \in KeysOf(input)}

\* the value that the last of the first n pairs with key k gives
RECURSIVE LastValue(_, _, _)
LastValue(input, k, n) ==
  IF input[n].key = k THEN input[n].value ELSE LastValue(input, k, n - 1)

\* the invocation has made its notification call and ended (either way)
EndedAfterAudit(p) ==
  \/ inv[p].pc = "done"
  \/ inv[p].pc = "failed" /\ inv[p].error \in {"Audit service failed", "fetch failed"}

\* the invocation ended on a rejected upsert statement
EndedOnStorage(p) == inv[p].pc = "failed" /\ inv[p].error = "storage error"

\* no request that came after p has upserted yet
NoLaterWrite(p) == \A q \in Slots : q > p => inv[q].updated = <<>>

\* slot p performs an upsert statement in this step
UpsertStep(p) ==
  /\ inv[p].pc = "loop"
  /\ inv'[p].pc = "loop"
  /\ Len(inv'[p].updated) = Len(inv[p].updated) + 1

\* C1: updateSettings for a userId that matches no user ends only by
\* throwing "User not found"; it pushes nothing on `updated`, posts no event,
\* and while it is in flight no step changes the settings table or draws a
\* row id.
C1_UnknownUserNoEffect ==
  /\ [](\A p \in Slots :
         (inv[p].pc # "idle" /\ inv[p].userId \notin ExistingIds) =>
            /\ inv[p].pc \in {"lookup", "failed"}
            /\ inv[p].pc = "failed" => inv[p].error = "User not found"
            /\ inv[p].updated = <<>>
            /\ inv[p].sent = <<>>
            /\ inv[p].result = <<>>)
  /\ [][\A p \in Slots :
         (inv[p].pc = "lookup" /\ inv[p].userId \notin ExistingIds) =>
            (settings' = settings /\ nextId' = nextId)]_vars

C1_Witness ==
  \E p \in Slots :
    /\ inv[p].pc = "failed" /\ inv[p].userId = "u9"
    /\ Len(inv[p].settings) = 2
    /\ inv[p].error = "User not found"

\* C2: when an invocation for an existing user with pairwise distinct keys
\* has ended after its notification call (no upsert failed) and no other
\* request has written since, each of its N keys has exactly one row, N rows
\* in all, every one of them with the same updated_at, and exactly one event
\* was posted whose changes contain every (key, value) pair of the batch.
C2_BatchWritten ==
  \A p \in Slots :
    (EndedAfterAudit(p) /\ NoLaterWrite(p) /\ DistinctKeys(inv[p].settings)) =>
       LET input == inv[p].settings
           rows  == BatchRows(inv[p].userId, input)
       IN  /\ \A j \in 1..Len(input) :
                Cardinality({r \in rows : r.key = input[j].key
                                          /\ r.value = input[j].value}) = 1
           /\ Cardinality(rows) = Len(input)
           /\ \A r1, r2 \in rows : r1.updated_at = r2.updated_at
           /\ Len(inv[p].sent) = 1
           /\ \A j \in 1..Len(input) :
                \E i \in 1..Len(inv[p].sent[1].changes) :
                  inv[p].sent[1].changes[i] = input[j]

C2_Witness ==
  \E p \in Slots :
    /\ inv[p].pc = "done"
    /\ Len(inv[p].settings) = 2
    /\ DistinctKeys(inv[p].settings)
    /\ NoLaterWrite(p)
    /\ clock > inv[p].now
    /\ Cardinality(BatchRows(inv[p].userId, inv[p].settings)) = 2

\* C3: an invocation whose audit response is not ok ends as a failure with no
\* payload; the rows it upserted are still in the table (with the values and
\* the timestamp of the batch while no later request has written),
\* settingsCount counts them, and the step that throws changes no row.
C3_AuditFailureKeepsRows ==
  /\ [](\A p \in Slots :
         inv[p].auditResponse = "not ok" =>
            /\ inv[p].pc = "failed"
            /\ inv[p].result = <<>>
            /\ \A j \in 1..Len(inv[p].settings) :
                 \E r \in settings :
                   /\ r.id = inv[p].updated[j].id
                   /\ r.user_id = inv[p].userId
                   /\ r.key = inv[p].settings[j].key
                   /\ NoLaterWrite(p) =>
                        /\ r.value = LastValue(inv[p].settings, r.key,
                                               Len(inv[p].settings))
                        /\ r.updated_at = inv[p].now
            /\ settingsCount(inv[p].userId)
                 >= Cardinality(KeysOf(inv[p].settings)))
  /\ [][\A p \in Slots :
         (inv[p].pc = "fetch" /\ inv'[p].pc = "failed") => settings' = settings]_vars

C3_Witness ==
  \E p \in Slots :
    /\ inv[p].auditResponse = "not ok"
    /\ Len(inv[p].settings) = 2
    /\ settingsCount(inv[p].userId) = 2

\* C4: in every reachable state, with overlapping invocations interleaved at
\* single upserts on the same user and keys, no two rows of the settings
\* table have the same (user_id, key).
C4_OneRowPerKey ==
  \A r1, r2 \in settings :
    (r1.user_id = r2.user_id /\ r1.key = r2.key) => r1 = r2

C4_Witness ==
  /\ \A p \in Slots :
       /\ inv[p].pc = "loop"
       /\ Len(inv[p].updated) = 1
       /\ Len(inv[p].settings) = 2
  /\ inv[1].updated[1].key = inv[2].updated[1].key
  /\ inv[1].updated[1].id = inv[2].updated[1].id

\* C5: an upsert of (k, v2) on a user whose row for k holds another value
\* leaves exactly one row for k, holding v2; and when an invocation with the
\* single pair (k, v) has ended after its notification call and no later
\* request has written, the user has exactly one row for k and its value is v.
C5_SecondCallOverwrites ==
  /\ [](\A p \in Slots :
         (EndedAfterAudit(p) /\ NoLaterWrite(p) /\ Len(inv[p].settings) = 1) =>
            \E r \in settings :
              /\ RowsOf(settings, inv[p].userId, inv[p].settings[1].key) = {r}
              /\ r.value = inv[p].settings[1].value)
  /\ [][\A p \in Slots :
         UpsertStep(p) =>
           LET s == inv[p].settings[Len(inv[p].updated) + 1]
           IN  (\E old \in RowsOf(settings, inv[p].userId, s.key) : old.value # s.value)
                 => \E r \in settings' :
                      /\ RowsOf(settings', inv[p].userId, s.key) = {r}
                      /\ r.value = s.value]_vars

\* the first request wrote (k1, v1), then the second wrote (k1, v2) over it
C5_Witness ==
  /\ inv[1].pc = "done"
  /\ inv[1].settings = <<[key |-> "k1", value |-> "v1"]>>
  /\ inv[2].pc = "done"
  /\ inv[2].settings = <<[key |-> "k1", value |-> "v2"]>>
  /\ inv[2].userId = inv[1].userId
  /\ inv[2].updated[1].id = inv[1].updated[1].id
  /\ \E r \in RowsOf(settings, inv[2].userId, "k1") : r.value = "v2"

\* C6: an invocation posts at most one event, posts it only when every pair
\* of its batch has been upserted, and upserts nothing once it has posted.
C6_AuditAfterAllUpserts ==
  /\ [](\A p \in Slots :
         /\ Len(inv[p].sent) <= 1
         /\ inv[p].sent # <<>> => Len(inv[p].updated) = Len(inv[p].settings))
  /\ [][\A p \in Slots :
         inv[p].sent # <<>> =>
           (inv'[p].updated = inv[p].updated /\ ~UpsertStep(p))]_vars

C6_Witness ==
  \E p \in Slots :
    /\ inv[p].pc = "fetch"
    /\ Len(inv[p].sent) = 1
    /\ Len(inv[p].updated) = 2
    /\ \E q \in Slots : q # p /\ inv[q].pc = "loop" /\ Len(inv[q].updated) = 1

\* C7: the payload of a successful invocation lists one setting per input
\* pair, and entry i has the key and the value of input pair i.
C7_PayloadKeepsInputOrder ==
  \A p \in Slots :
    inv[p].pc = "done" =>
      /\ Len(inv[p].result) = 1
      /\ inv[p].result[1].success
      /\ Len(inv[p].result[1].settings) = Len(inv[p].settings)
      /\ \A i \in 1..Len(inv[p].settings) :
           /\ inv[p].result[1].settings[i].key = inv[p].settings[i].key
           /\ inv[p].result[1].settings[i].value = inv[p].settings[i].value

C7_Witness ==
  \E p \in Slots :
    /\ inv[p].pc = "done"
    /\ Len(inv[p].result[1].settings) = 2
    /\ inv[p].settings[1].key # inv[p].settings[2].key
    /\ inv[p].settings[1].value # inv[p].settings[2].value

\* C8: after an upsert on a (userId, key) whose row exists, the row's
\* updated_by is the caller of this invocation (null for a caller without
\* identity), as long as no later request has written.
C8_UpsertSetsUpdatedBy ==
  \A p \in Slots :
    NoLaterWrite(p) =>
      \A j \in 1..Len(inv[p].updated) :
        \A r \in RowsOf(settings, inv[p].userId, inv[p].settings[j].key) :
          r.updated_by = OrNull(inv[p].ctx)

\* C9: an invocation that ended on a failed upsert statement at position i
\* has posted no event and has no payload; the rows of the pairs before i are
\* in the table (as written while no later request has written); the failing
\* statement changes no row and draws no row id; and after it the invocation
\* takes no step, so the table changes only when another request upserts.
C9_StorageFailureAborts ==
  /\ [](\A p \in Slots :
         EndedOnStorage(p) =>
            /\ inv[p].sent = <<>>
            /\ inv[p].auditResponse = Null
            /\ inv[p].result = <<>>
            /\ Len(inv[p].updated) < Len(inv[p].settings)
            /\ \A j \in 1..Len(inv[p].updated) :
                 \E r \in settings :
                   /\ r.id = inv[p].updated[j].id
                   /\ r.user_id = inv[p].userId
                   /\ r.key = inv[p].settings[j].key
                   /\ NoLaterWrite(p) =>
                        /\ r.value = LastValue(inv[p].settings, r.key,
                                               Len(inv[p].updated))
                        /\ r.updated_at = inv[p].now)
  /\ [][\A p \in Slots :
         /\ (inv[p].pc = "loop" /\ inv'[p].pc = "failed")
              => (settings' = settings /\ nextId' = nextId)
         /\ EndedOnStorage(p) => inv'[p] = inv[p]
         /\ (EndedOnStorage(p) /\ \A q \in Slots : inv'[q].updated = inv[q].updated)
              => settings' = settings]_vars

C9_Witness ==
  \E p \in Slots :
    /\ EndedOnStorage(p)
    /\ Len(inv[p].updated) = 1
    /\ Len(inv[p].settings) = 2
    /\ inv[p].settings[1].key # inv[p].settings[2].key
    /\ RowsOf(settings, inv[p].userId, inv[p].settings[1].key) # {}
    /\ RowsOf(settings, inv[p].userId, inv[p].settings[2].key) = {}

\* C10: an invocation for an existing user with an empty settings list
\* upserts nothing, ends only after posting exactly one event whose changes
\* are empty, returns success with an empty settings list only on an ok
\* response, and fails on a response that is not ok.
C10_EmptyBatchStillAudits ==
  /\ [](\A p \in Slots :
         (inv[p].pc # "idle" /\ inv[p].userId \in ExistingIds
            /\ inv[p].settings = <<>>) =>
            /\ inv[p].updated = <<>>
            /\ inv[p].pc \in {"done", "failed"} =>
                 /\ Len(inv[p].sent) = 1
                 /\ inv[p].sent[1].changes = <<>>
            /\ inv[p].pc = "done" =>
                 /\ inv[p].auditResponse = "ok"
                 /\ Len(inv[p].result) = 1
                 /\ inv[p].result[1].success
                 /\ inv[p].result[1].settings = <<>>
            /\ inv[p].auditResponse = "not ok" =>
                 /\ inv[p].pc = "failed"
                 /\ inv[p].result = <<>>)
  /\ [][\A p \in Slots :
         (Running(p) /\ inv[p].settings = <<>>) =>
            (settings' = settings /\ nextId' = nextId)]_vars

C10_Witness ==
  \E p \in Slots :
    /\ inv[p].pc = "done"
    /\ inv[p].userId \in ExistingIds
    /\ inv[p].settings = <<>>
    /\ Len(inv[p].sent) = 1
    /\ inv[p].result[1].settings = <<>>


\* C11: for every sequence of ids, users(ids) returns a sequence of the same
\* length whose position i holds the user with id ids[i] when that user exists
\* and null otherwise: a missing id neither fails the call nor moves or changes
\* the result at another position.
C11_UsersAlignedWithIds ==
  query.op = "users" =>
    /\ Len(query.reply) = Len(query.ids)
    /\ \A i \in 1..Len(query.ids) :
         /\ query.ids[i] \notin ExistingIds => query.reply[i] = {}
         /\ query.ids[i] \in ExistingIds =>
              \E r \in users :
                /\ r.id = query.ids[i]
                /\ query.reply[i] =
                     {[id |-> r.id, email |-> r.email, role |-> r.role,
                       created_at |-> r.created_at,
                       createdAt |-> toISOString(r.created_at)]}

\* users(["u9", "u1"]) has answered: a missing id before an existing one
C11_Witness ==
  /\ query.op = "users"
  /\ query.ids = <<"u9", "u1">>
  /\ query.reply[1] = {}
  /\ query.reply[2] # {}


\* C12: the validator called with an empty or absent value fails at once with
\* the message "Schema is required" and makes no call to the remote query.
C12_RequiredWithoutRemoteCall ==
  \A f \in Fields :
    (form[f].pc # "idle" /\ form[f].value \in {Undefined, ""}) =>
      /\ form[f].pc = "rejected"
      /\ form[f].message = "Schema is required"
      /\ form[f].remote = <<>>
      /\ form[f].response = <<>>

\* one field was validated with the empty string and one with no value
C12_Witness ==
  /\ form[1].pc = "rejected" /\ form[1].value = ""
  /\ form[2].pc = "rejected" /\ form[2].value = Undefined

\* C13: the validator called with a non-empty value makes exactly one remote
\* call, with that value; it succeeds exactly when the call returns without a
\* reported error, and fails with the message "Invalid schema" both when the
\* call raises and when it returns a reported error, whatever the error was.
C13_OneCallInvalidOnAnyError ==
  \A f \in Fields :
    (form[f].pc # "idle" /\ form[f].value \notin {Undefined, ""}) =>
      /\ form[f].remote = <<[sparkSchemaDDL |-> form[f].value]>>
      /\ form[f].pc = "awaiting" <=> form[f].response = <<>>
      /\ form[f].pc = "fulfilled" <=>
           form[f].response = <<[kind |-> "resolved", error |-> Undefined]>>
      /\ \A e \in RemoteErrors, k \in {"resolved", "rejected"} :
           form[f].response = <<[kind |-> k, error |-> e]>> =>
             form[f].pc = "rejected" /\ form[f].message = "Invalid schema"

\* one validation failed on a reported error and one on a raised error, the
\* two errors differing
C13_Witness ==
  /\ form[1].response = <<[kind |-> "resolved", error |-> "GraphQLError"]>>
  /\ form[2].response = <<[kind |-> "rejected", error |-> "NetworkError"]>>
  /\ form[1].message = "Invalid schema"
  /\ form[2].message = "Invalid schema"


\* C14: the one event an invocation posts carries the target user id, the
\* acting identity (the caller's id if there is one, otherwise an explicit
\* null, never a missing field), the batch timestamp, which is the updated_at
\* written on every row of the invocation, and one (key, value) change per
\* input pair in the order the pairs were processed.
C14_EventContent ==
  \A p \in Slots :
    inv[p].sent # <<>> =>
      LET event == inv[p].sent[1]
          input == inv[p].settings
      IN  /\ Len(inv[p].sent) = 1
          /\ event.eventType = "USER_SETTINGS_UPDATED"
          /\ event.userId = inv[p].userId
          /\ event.actorId # Undefined
          /\ event.actorId = (IF inv[p].ctx = Undefined THEN Null ELSE inv[p].ctx)
          /\ event.at = toISOString(inv[p].now)
          /\ \A j \in 1..Len(inv[p].updated) : inv[p].updated[j].updatedAt = event.at
          /\ NoLaterWrite(p) =>
                \A r \in BatchRows(inv[p].userId, input) :
                  toISOString(r.updated_at) = event.at
          /\ Len(event.changes) = Len(input)
          /\ \A j \in 1..Len(input) :
                /\ event.changes[j].key = input[j].key
                /\ event.changes[j].value = input[j].value

\* an event was posted for a caller without identity, after the clock moved,
\* for two pairs on different keys
C14_Witness ==
  \E p \in Slots :
    /\ inv[p].sent # <<>>
    /\ inv[p].ctx = Undefined
    /\ inv[p].now > 0
    /\ Len(inv[p].settings) = 2
    /\ inv[p].settings[1].key = "k2"
    /\ inv[p].settings[2].key = "k1"
    /\ inv[p].sent[1].actorId = Null


\* C15: no step deletes a settings row or changes its identity: a row that
\* exists for (user_id, key) is still there, with the same id, after every
\* step; an upsert on an existing key returns the existing id and stores the
\* freshly generated id nowhere; so settingsCount never decreases.
C15_RowsKeepIdentity ==
  [][ /\ \A r \in settings :
           \E t \in settings' :
             t.user_id = r.user_id /\ t.key = r.key /\ t.id = r.id
      /\ \A id \in ExistingIds \cup UserIds :
           Cardinality({t \in settings' : t.user_id = id}) >= settingsCount(id)
      /\ \A p \in Slots :
           LET j == Len(inv[p].updated) + 1
           IN  ( /\ UpsertStep(p)
                 /\ Conflict(inv[p].userId, inv[p].settings[j].key) # {} ) =>
                 /\ \E r \in Conflict(inv[p].userId, inv[p].settings[j].key) :
                      inv'[p].updated[j].id = r.id
                 /\ \A t \in settings' : t.id # nextId
    ]_vars

\* both requests upserted the same key: the second got the id of the first,
\* and the id generated for it is in no row
C15_Witness ==
  /\ inv[1].updated # <<>>
  /\ inv[2].updated # <<>>
  /\ inv[1].updated[1].key = inv[2].updated[1].key
  /\ inv[1].updated[1].id = inv[2].updated[1].id
  /\ nextId = 3
  /\ \A r \in settings : r.id < 2


\* slot p performs an upsert statement in this step and row r has its user and
\* one of its keys
InBatchOfStep(p, r) ==
  /\ UpsertStep(p)
  /\ r.user_id = inv[p].userId
  /\ r.key \in KeysOf(inv[p].settings)

\* C16: updateSettings(userId, pairs) changes nothing outside its batch: no
\* step inserts, changes or removes a user record, a settings row of another
\* user, or a settings row of userId whose key is not among the keys of pairs;
\* and a step of user, users, settingsCount or updatedBy changes no state
\* besides handing back its reply.
C16_NothingOutsideBatch ==
  [][ /\ users' = users
      /\ \A r \in settings : r \in settings' \/ \E p \in Slots : InBatchOfStep(p, r)
      /\ \A t \in settings' : t \in settings \/ \E p \in Slots : InBatchOfStep(p, t)
      /\ query' # query => UNCHANGED <<users, settings, clock, nextId, inv, form>>
    ]_vars

\* the first request wrote key k1 only and the second key k2 only: the row of
\* k1 is as the first request left it, the row of the other user is as it was
\* at the start, and a read resolver has answered
C16_Witness ==
  /\ KeysOf(inv[1].settings) = {"k1"}
  /\ KeysOf(inv[2].settings) = {"k2"}
  /\ inv[1].updated # <<>>
  /\ Len(inv[2].updated) = Len(inv[2].settings)
  /\ \E r \in settings :
       /\ r.user_id = ConcUser /\ r.key = "k1"
       /\ UpdatedEntry(r) = inv[1].updated[Len(inv[1].updated)]
  /\ InitSettings \subseteq settings
  /\ query.op = "settingsCount"
  /\ query.ids = <<ConcUser>>
  /\ query.reply = <<2>>


\* the entries of list l carry the (key, value) pairs of request p, in order
OwnPairs(p, l) ==
  /\ Len(l) <= Len(inv[p].settings)
  /\ \A j \in 1..Len(l) :
       /\ l[j].key = inv[p].settings[j].key
       /\ l[j].value = inv[p].settings[j].value

\* C17: under every interleaving of overlapping invocations on one user, the
\* settings list an invocation returns and the changes list it posts hold
\* exactly the (key, value) pairs it was given, with its own batch timestamp,
\* never a value or a timestamp of another invocation; the stored row alone
\* follows the last writer: each upsert leaves in the row of its key the value
\* and the timestamp of the invocation that performed it.
C17_OwnPairsUnderInterleaving ==
  /\ [](\A p \in Slots :
          /\ OwnPairs(p, inv[p].updated)
          /\ \A j \in 1..Len(inv[p].updated) :
               inv[p].updated[j].updatedAt = toISOString(inv[p].now)
          /\ inv[p].sent # <<>> =>
               /\ Len(inv[p].sent[1].changes) = Len(inv[p].settings)
               /\ OwnPairs(p, inv[p].sent[1].changes)
               /\ inv[p].sent[1].at = toISOString(inv[p].now)
          /\ inv[p].result # <<>> =>
               /\ Len(inv[p].result[1].settings) = Len(inv[p].settings)
               /\ OwnPairs(p, inv[p].result[1].settings)
               /\ \A j \in 1..Len(inv[p].settings) :
                    inv[p].result[1].settings[j].updatedAt = toISOString(inv[p].now))
  /\ [][\A p \in Slots :
          UpsertStep(p) =>
            LET s == inv[p].settings[Len(inv[p].updated) + 1]
            IN  \A r \in RowsOf(settings', inv[p].userId, s.key) :
                  r.value = s.value /\ r.updated_at = inv[p].now]_vars

\* the requests overlapped on key k1 with different values and batch
\* timestamps: the second wrote first, the first wrote last and its value is
\* the stored one, and each returned its own value and timestamp
C17_Witness ==
  /\ inv[1].pc = "done" /\ inv[2].pc = "done"
  /\ Len(inv[1].settings) = 1 /\ Len(inv[2].settings) >= 1
  /\ inv[1].settings[1].key = "k1" /\ inv[2].settings[1].key = "k1"
  /\ inv[1].now # inv[2].now
  /\ inv[1].result[1].settings[1].value # inv[2].result[1].settings[1].value
  /\ inv[2].result[1].settings[1].updatedAt = toISOString(inv[2].now)
  /\ inv[1].now < inv[2].now
  /\ \A r \in RowsOf(settings, ConcUser, "k1") :
       r.value = inv[1].settings[1].value /\ r.updated_at = inv[1].now

====
